---- MODULE Spec2Model ----
(***************************************************************************)
(* Query Tracker (main.py): a FastAPI application that records requests to *)
(* /track-query in data/queries.json, a JSON array capped at 100 records,  *)
(* and exposes the log through /queries, /api/queries and /clear-queries.  *)
(*                                                                         *)
(* Three specifications are given:                                         *)
(*   SpecAppend  a single writer calling save_query repeatedly;            *)
(*   Spec        the HTTP application served by one event loop; handlers   *)
(*               are coroutines that interleave at their await points;     *)
(*   SpecMP      several worker processes sharing data/queries.json, where *)
(*               the load and the write of save_query are separate steps.  *)
(***************************************************************************)
EXTENDS Integers, Sequences, FiniteSets, TLC

VARIABLES
    doc,        \* the file data/queries.json: [kind, log]
    nextId,     \* number of uuid4() values drawn so far
    conn,       \* Spec: per connection, the request being handled and its position
    arrived,    \* Spec: number of requests received so far
    last,       \* Spec: the response of the most recently completed request
    prev,       \* Spec: the operation completed before last, and the file it found
    acks,       \* Spec: query_ids acknowledged since the last clear, in order
    wrote,      \* TRUE once the program has written the file
    worker,     \* SpecMP: per worker process, its position inside save_query
    lastPair    \* SpecMP: the overlapped appends completed by the last step

vars == <<doc, nextId, conn, arrived, last, prev, acks, wrote, worker, lastPair>>

(***************************************************************************)
(* Program constant and bounds.                                            *)
(***************************************************************************)
Cap == 100

MaxAppends == 105
MaxRequests == 2
NClients == 2
NWorkers == 2
MaxSaves == 3

(***************************************************************************)
(* Records and documents.                                                  *)
(***************************************************************************)
Min(a, b) == IF a < b THEN a ELSE b

\* body = {} (main.py:68 and :130)
EmptyBody == [shape |-> "mapping", stage |-> "none", text |-> <<>>]

\* query_data (main.py:79-89 and :140-150); headers, query_params, timestamp,
\* client_ip and url are copied from the request and play no part in the log's
\* behaviour, so a record keeps query_id, method, path and body.
QueryData(qid, method, path, body) ==
    [query_id |-> qid, method |-> method, path |-> path, body |-> body]

\* A record persisted by an earlier run of the program.
OldRecord(qid) == QueryData(qid, "GET", "/track-query", EmptyBody)

\* The k records of a file persisted by an earlier run; their ids are
\* -k .. -1, oldest first, so they never collide with fresh ids 1, 2, ...
OldLog(k) == [i \in 1..k |-> OldRecord(i - k - 1)]

\* States of data/queries.json.
\*   absent      os.path.exists(DATA_FILE) is False
\*   unreadable  the file exists but open()/read() raises an error that is not
\*               FileNotFoundError (PermissionError, UnicodeDecodeError)
\*   malformed   the content is not JSON: json.load raises JSONDecodeError
\*   nonarray    the content is JSON but not an array (the object {})
\*   array       the content is a JSON array of records
AbsentDoc == [kind |-> "absent", log |-> <<>>]
UnreadableDoc == [kind |-> "unreadable", log |-> <<>>]
MalformedDoc == [kind |-> "malformed", log |-> <<>>]
NonArrayDoc == [kind |-> "nonarray", log |-> <<>>]
ArrayDoc(l) == [kind |-> "array", log |-> l]

\* Lengths of the array found on disk at start-up.
InitLens == {0, 1, Cap - 1, Cap + 1}

InitDocs ==
    {AbsentDoc, UnreadableDoc, MalformedDoc, NonArrayDoc}
        \cup {ArrayDoc(OldLog(k)) : k \in InitLens}

Ids(l) == {l[i].query_id : i \in 1..Len(l)}

(***************************************************************************)
(* Store: load_queries and save_query.                                     *)
(***************************************************************************)
\* load_queries: exc is the exception that escapes, isList tells whether the
\* returned value is a list, list is the returned list.
load_queries(d) ==
    CASE d.kind = "absent" -> [exc |-> "none", isList |-> TRUE, list |-> <<>>]
      [] d.kind = "unreadable" -> [exc |-> "OSError", isList |-> FALSE, list |-> <<>>]
      [] d.kind = "malformed" -> [exc |-> "none", isList |-> TRUE, list |-> <<>>]
      [] d.kind = "nonarray" -> [exc |-> "none", isList |-> FALSE, list |-> <<>>]
      [] OTHER -> [exc |-> "none", isList |-> TRUE, list |-> d.log]

\* queries[-100:] without the length test: the first Cap elements instead.
TruncateHead(queries) ==
    IF Len(queries) > Cap THEN SubSeq(queries, 1, Cap) ELSE queries

\* No truncation at all.
NoTruncate(queries) == queries

\* if len(queries) > 100: queries = queries[-100:]
Truncate(queries) ==
    IF Len(queries) > Cap
    THEN SubSeq(queries, Len(queries) - Cap + 1, Len(queries))
    ELSE queries

\* The append is skipped.
AppendSkipped(queries, r) == Truncate(queries)

\* queries.append(query_data) followed by the truncation: the list written back.
AppendTruncate(queries, r) == Truncate(Append(queries, r))

\* The record is appended to what the file holds at the time of the write.
WriteMerged(current, queries, r) ==
    ArrayDoc(AppendTruncate(load_queries(current).list, r))

\* Lines 44-51: append, truncate, open(DATA_FILE, "w") and json.dump.  The
\* file's current content plays no part: it is replaced by the list that was
\* loaded at line 43, extended by r.
WriteBack(current, queries, r) == ArrayDoc(AppendTruncate(queries, r))

\* Only the new record is written.
save_query_overwrite(d, r) == [exc |-> "none", doc |-> ArrayDoc(<<r>>)]

\* save_query: exc is the exception that escapes, doc the file afterwards.
save_query(d, r) ==
    LET l == load_queries(d) IN
    IF l.exc # "none" THEN [exc |-> l.exc, doc |-> d]
    ELSE IF ~l.isList THEN [exc |-> "AttributeError", doc |-> d]
    ELSE [exc |-> "none", doc |-> WriteBack(d, l.list, r)]

(***************************************************************************)
(* SpecAppend: one writer, appends only, from an empty or absent log.      *)
(***************************************************************************)
NoResponse ==
    [op |-> "none", method |-> "", path |-> "", status |-> 0, query_id |-> 0,
     body |-> EmptyBody, isList |-> TRUE, queries |-> <<>>, count |-> 0,
     by |-> "none", appended |-> 0, handler |-> "none",
     payload |-> [json |-> "fail", form |-> "ok", bytes |-> <<>>],
     preKind |-> "none", preLen |-> 0]

NoPrev == [op |-> "none", preKind |-> "none", preLen |-> 0]

NoPair == [kept |-> 0, lost |-> {}]

IdleConn == [pc |-> "idle", method |-> "", path |-> "", query_id |-> 0,
             payload |-> [json |-> "fail", form |-> "ok", bytes |-> <<>>]]

IdleWorker == [pc |-> "idle", queries |-> <<>>, rec |-> 0, stale |-> {}]

InitAppend ==
    /\ doc \in {AbsentDoc, ArrayDoc(<<>>)}
    /\ nextId = 0
    /\ conn = [c \in 1..NClients |-> IdleConn]
    /\ arrived = 0
    /\ last = NoResponse
    /\ prev = NoPrev
    /\ acks = <<>>
    /\ wrote = FALSE
    /\ worker = [w \in 1..NWorkers |-> IdleWorker]
    /\ lastPair = NoPair

\* One call save_query(r) with a fresh record r.
AppendOne ==
    /\ nextId < MaxAppends
    /\ LET r == QueryData(nextId + 1, "GET", "/track-query", EmptyBody)
           s == save_query(doc, r)
       IN /\ s.exc = "none"
          /\ doc' = s.doc
    /\ nextId' = nextId + 1
    /\ wrote' = TRUE
    /\ UNCHANGED <<conn, arrived, last, prev, acks, worker, lastPair>>

NextAppend == AppendOne

SpecAppend == InitAppend /\ [][NextAppend]_vars

\* C1: after n appends from an empty or absent log, with no clear, the
\* persisted log holds exactly the most recent min(n, 100) records, in the
\* order they were appended: the records n - min(n,100) + 1 .. n.
C1_RecentRecordsKept ==
    wrote =>
        /\ doc.kind = "array"
        /\ Len(doc.log) = Min(nextId, Cap)
        /\ \A i \in 1..Len(doc.log) :
               doc.log[i].query_id = nextId - Min(nextId, Cap) + i

\* 105 appends have left the records 6 .. 105.
C1_Witness ==
    /\ nextId = Cap + 5
    /\ Len(doc.log) = Cap
    /\ doc.log[1].query_id = 6
    /\ doc.log[Cap].query_id = Cap + 5

(***************************************************************************)
(* Spec: the HTTP application on one event loop.                           *)
(***************************************************************************)
Clients == 1..NClients

Methods == {"GET", "POST", "PUT", "PATCH", "DELETE"}
BodyMethods == {"POST", "PUT", "PATCH"}

\* Request payloads that reach neither parser successfully, as bytes; 255 is
\* a byte that never occurs in UTF-8 text.
RawBodies == {<<104, 255, 105>>}

\* A payload is described by what the framework's parsers make of it:
\*   json   request.json(): "object" (a JSON object), "other" (any other JSON
\*          value: array, string, number, ...), "fail" (it raises)
\*   form   request.form(): "ok" (a mapping of fields), "fail" (it raises)
\*   bytes  request.body()
Payloads ==
    {[json |-> "object", form |-> "ok", bytes |-> <<>>],
     [json |-> "other", form |-> "ok", bytes |-> <<>>],
     [json |-> "fail", form |-> "ok", bytes |-> <<>>]}
        \cup {[json |-> "fail", form |-> "fail", bytes |-> b] : b \in RawBodies}

\* The payload of a request whose body is never read.
NoPayload == [json |-> "fail", form |-> "ok", bytes |-> <<>>]

\* The requests sent to the application: every method on /track-query, the
\* three service endpoints, one request with a method its path does not
\* accept and one to an unknown path.  The payload of a request is drawn
\* when the handler first reads it (JsonStage); nothing looks at it before.
Requests ==
    {[method |-> m, path |-> "/track-query"] : m \in Methods}
    \cup {[method |-> "GET", path |-> "/queries"],
          [method |-> "GET", path |-> "/api/queries"],
          [method |-> "POST", path |-> "/clear-queries"],
          [method |-> "GET", path |-> "/clear-queries"],
          [method |-> "GET", path |-> "/other"]}

\* bytes.decode("utf-8", errors="ignore") over the alphabet {ASCII, 255}:
\* the undecodable bytes are dropped.
DecodeIgnore(bytes) == SelectSeq(bytes, LAMBDA b : b < 128)

\* The routing table built by the @app.get/post/put/patch decorators.
RouteOf(method, path) ==
    CASE path = "/track-query" ->
            (CASE method = "GET" -> "track_query_get"
               [] method = "POST" -> "track_query_post"
               [] method = "PUT" -> "track_query_put"
               [] method = "PATCH" -> "track_query_patch"
               [] OTHER -> "405")
      [] path = "/queries" ->
            (IF method = "GET" THEN "get_queries_html" ELSE "405")
      [] path = "/api/queries" ->
            (IF method = "GET" THEN "get_queries_api" ELSE "405")
      [] path = "/clear-queries" ->
            (IF method = "POST" THEN "clear_queries" ELSE "405")
      [] OTHER -> "404"

CaptureHandlers == {"track_query_post", "track_query_put", "track_query_patch"}
ReadHandlers == {"get_queries_html", "get_queries_api"}

Occurrences(l, qid) == Cardinality({i \in 1..Len(l) : l[i].query_id = qid})

Init ==
    /\ doc \in InitDocs
    /\ nextId = 0
    /\ conn = [c \in Clients |-> IdleConn]
    /\ arrived = 0
    /\ last = NoResponse
    /\ prev = NoPrev
    /\ acks = <<>>
    /\ wrote = FALSE
    /\ worker = [w \in 1..NWorkers |-> IdleWorker]
    /\ lastPair = NoPair

\* The request on connection c is answered with resp.
Reply(c, resp) ==
    /\ conn' = [conn EXCEPT ![c] = IdleConn]
    /\ prev' = [op |-> last.op, preKind |-> last.preKind, preLen |-> last.preLen]
    /\ last' = resp

\* Lines 78-102 and 139-163: build query_data, save_query(query_data), return
\* the acknowledgement.  These lines hold no await, so they are one step.  by
\* names the code that captures ("middleware" or "handler"), handler the
\* route handler that ran ("none" when the middleware replied itself), echo
\* tells whether the acknowledgement echoes the body.
Capture(c, by, handler, method, path, qid, payload, body, echo) ==
    LET s == save_query(doc, QueryData(qid, method, path, body)) IN
    /\ doc' = s.doc
    /\ wrote' = (wrote \/ s.exc = "none")
    /\ acks' = IF s.exc = "none" THEN Append(acks, qid) ELSE acks
    /\ Reply(c, [op |-> "capture", method |-> method, path |-> path,
                 status |-> IF s.exc = "none" THEN 200 ELSE 500,
                 query_id |-> IF s.exc = "none" THEN qid ELSE 0,
                 body |-> IF s.exc = "none" /\ echo THEN body ELSE EmptyBody,
                 isList |-> TRUE, queries |-> <<>>, count |-> 0,
                 by |-> IF s.exc = "none" THEN by ELSE "none",
                 appended |-> Occurrences(s.doc.log, qid),
                 handler |-> handler, payload |-> payload,
                 preKind |-> doc.kind, preLen |-> Len(doc.log)])

\* log_queries, up to its first await or its return, on the lowest-numbered
\* idle connection (connections are interchangeable).  A GET on /track-query
\* is captured here (the test of line 69 is then false, body stays {}) and
\* answered by the middleware; any other request is passed on by
\* await call_next(request).
Arrive(c) ==
    /\ conn[c].pc = "idle"
    /\ \A b \in Clients : b < c => conn[b].pc # "idle"
    /\ arrived < MaxRequests
    /\ arrived' = arrived + 1
    /\ \E req \in Requests :
        /\ IF req.path = "/track-query" /\ req.method = "GET"
           THEN /\ nextId' = nextId + 1
                /\ Capture(c, "middleware", "none", req.method, req.path,
                           nextId + 1, NoPayload, EmptyBody, FALSE)
           ELSE /\ conn' = [conn EXCEPT ![c] =
                        [pc |-> "call_next", method |-> req.method,
                         path |-> req.path, query_id |-> 0,
                         payload |-> NoPayload]]
                /\ UNCHANGED <<doc, nextId, last, prev, acks, wrote>>
    /\ UNCHANGED <<worker, lastPair>>

\* Routing to track_query_post (directly, or through track_query_put and
\* track_query_patch, which only await it): lines 121-132, up to
\* await request.json().
StartPost(c) ==
    /\ conn[c].pc = "call_next"
    /\ RouteOf(conn[c].method, conn[c].path) \in CaptureHandlers
    /\ nextId' = nextId + 1
    /\ conn' = [conn EXCEPT ![c].pc = "json", ![c].query_id = nextId + 1]
    /\ UNCHANGED <<doc, arrived, last, prev, acks, wrote, worker, lastPair>>

\* The body the JSON stage yields for payload p.
JsonBody(p) ==
    [shape |-> IF p.json = "object" THEN "mapping" ELSE "nonmapping",
     stage |-> "json", text |-> <<>>]

\* request.json() reads the payload and returns or raises (lines 131-134).
JsonStage(c) ==
    /\ conn[c].pc = "json"
    /\ \E p \in Payloads :
        IF p.json # "fail"
        THEN Capture(c, "handler", RouteOf(conn[c].method, conn[c].path),
                     conn[c].method, conn[c].path, conn[c].query_id,
                     p, JsonBody(p), TRUE)
        ELSE /\ conn' = [conn EXCEPT ![c].pc = "form", ![c].payload = p]
             /\ UNCHANGED <<doc, last, prev, acks, wrote>>
    /\ UNCHANGED <<nextId, arrived, worker, lastPair>>

\* dict(await request.form()) returns or raises (lines 134-136).
FormStage(c) ==
    /\ conn[c].pc = "form"
    /\ IF conn[c].payload.form # "fail"
       THEN Capture(c, "handler", RouteOf(conn[c].method, conn[c].path),
                    conn[c].method, conn[c].path, conn[c].query_id,
                    conn[c].payload,
                    [shape |-> "mapping", stage |-> "form", text |-> <<>>],
                    TRUE)
       ELSE /\ conn' = [conn EXCEPT ![c].pc = "raw"]
            /\ UNCHANGED <<doc, last, prev, acks, wrote>>
    /\ UNCHANGED <<nextId, arrived, worker, lastPair>>

\* {"raw_body": (await request.body()).decode("utf-8", errors="ignore")}
RawStage(c) ==
    /\ conn[c].pc = "raw"
    /\ Capture(c, "handler", RouteOf(conn[c].method, conn[c].path),
               conn[c].method, conn[c].path, conn[c].query_id,
               conn[c].payload,
               [shape |-> "mapping", stage |-> "raw",
                text |-> DecodeIgnore(conn[c].payload.bytes)], TRUE)
    /\ UNCHANGED <<nextId, arrived, worker, lastPair>>

\* get_queries_html and get_queries_api: load_queries() and the response.
ReadQueries(c) ==
    /\ conn[c].pc = "call_next"
    /\ RouteOf(conn[c].method, conn[c].path) \in ReadHandlers
    /\ LET l == load_queries(doc)
           h == RouteOf(conn[c].method, conn[c].path)
       IN Reply(c, [op |-> IF h = "get_queries_api" THEN "list" ELSE "html",
                    method |-> conn[c].method, path |-> conn[c].path,
                    status |-> IF l.exc = "none" THEN 200 ELSE 500,
                    query_id |-> 0, body |-> EmptyBody,
                    isList |-> l.isList, queries |-> l.list,
                    count |-> Len(l.list),
                    by |-> "none", appended |-> 0, handler |-> h,
                    payload |-> conn[c].payload,
                    preKind |-> doc.kind, preLen |-> Len(doc.log)])
    /\ UNCHANGED <<doc, nextId, arrived, acks, wrote, worker, lastPair>>

\* The file is left as it is unless it already holds an array.
ClearOnlyArrays(d) == IF d.kind = "array" THEN ArrayDoc(<<>>) ELSE d

\* open(DATA_FILE, "w"); json.dump([], f)
ClearedFile(d) == ArrayDoc(<<>>)

\* clear_queries
ClearQueries(c) ==
    /\ conn[c].pc = "call_next"
    /\ RouteOf(conn[c].method, conn[c].path) = "clear_queries"
    /\ doc' = ClearedFile(doc)
    /\ wrote' = TRUE
    /\ acks' = <<>>
    /\ Reply(c, [op |-> "clear", method |-> conn[c].method,
                 path |-> conn[c].path, status |-> 200,
                 query_id |-> 0, body |-> EmptyBody,
                 isList |-> TRUE, queries |-> <<>>, count |-> 0,
                 by |-> "none", appended |-> 0, handler |-> "clear_queries",
                 payload |-> conn[c].payload,
                 preKind |-> doc.kind, preLen |-> Len(doc.log)])
    /\ UNCHANGED <<nextId, arrived, worker, lastPair>>

\* Requests that match no route (404), a route with another method (405),
\* or track_query_get, whose body is pass.
NoCapture(c) ==
    /\ conn[c].pc = "call_next"
    /\ LET h == RouteOf(conn[c].method, conn[c].path) IN
        /\ h \in {"404", "405", "track_query_get"}
        /\ Reply(c, [op |-> "other", method |-> conn[c].method,
                     path |-> conn[c].path,
                     status |-> CASE h = "404" -> 404 [] h = "405" -> 405
                                  [] OTHER -> 200,
                     query_id |-> 0, body |-> EmptyBody,
                     isList |-> TRUE, queries |-> <<>>, count |-> 0,
                     by |-> "none", appended |-> 0,
                     handler |-> IF h = "track_query_get" THEN h ELSE "none",
                     payload |-> conn[c].payload,
                     preKind |-> doc.kind, preLen |-> Len(doc.log)])
    /\ UNCHANGED <<doc, nextId, arrived, acks, wrote, worker, lastPair>>

Next ==
    \E c \in Clients :
        \/ Arrive(c)
        \/ StartPost(c)
        \/ JsonStage(c)
        \/ FormStage(c)
        \/ RawStage(c)
        \/ ReadQueries(c)
        \/ ClearQueries(c)
        \/ NoCapture(c)

Spec == Init /\ [][Next]_vars

(***************************************************************************)
(* Properties of Spec.                                                     *)
(***************************************************************************)
\* The log that load is meant to return for a file: its array, and the empty
\* log for a file that is absent, unreadable or malformed.
LogOf(d) == IF d.kind = "array" THEN d.log ELSE <<>>

\* The stage of lines 131-137 that yields the body of a payload.
FirstStage(p) ==
    IF p.json # "fail" THEN "json" ELSE IF p.form # "fail" THEN "form" ELSE "raw"

\* C2: once the program has written the file (by an append or a clear), the
\* persisted log is an array of at most 100 records.
C2_AtMostCapAfterWrite ==
    wrote => (doc.kind = "array" /\ Len(doc.log) <= Cap)

\* An append to a file that held more than 100 records has left exactly 100.
C2_Witness ==
    /\ last.op = "capture"
    /\ last.status = 200
    /\ last.preLen = Cap + 1
    /\ Len(doc.log) = Cap

\* C3: clear always answers with its acknowledgement, and a list that
\* completes right after a clear returns no records and count 0, whatever
\* the file held before the clear.
C3_ClearThenListEmpty ==
    /\ (last.op = "clear") => (last.status = 200)
    /\ (last.op = "list" /\ prev.op = "clear") =>
          /\ last.status = 200
          /\ last.isList
          /\ last.queries = <<>>
          /\ last.count = 0

\* A list has completed right after a clear of a file that could not be read.
C3_Witness ==
    /\ last.op = "list"
    /\ prev.op = "clear"
    /\ prev.preKind = "unreadable"
    /\ last.count = 0

\* C4: load_queries never raises: a list or an HTML view of a file that is
\* absent, unreadable or malformed is answered with the empty log that
\* load_queries returned.
C4_LoadNeverFails ==
    (/\ last.op \in {"list", "html"}
     /\ last.preKind \in {"absent", "unreadable", "malformed"}) =>
        /\ last.status = 200
        /\ last.isList
        /\ last.queries = <<>>
        /\ last.count = 0

\* C5: a POST, PUT or PATCH on /track-query is always acknowledged, its
\* record is appended, and the body is the result of the first parsing stage
\* that succeeds (JSON, form, raw text) and is a mapping.
C5_CaptureNeverRaises ==
    (last.op = "capture" /\ last.method \in BodyMethods) =>
        /\ last.status = 200
        /\ last.appended = 1
        /\ last.body.stage = FirstStage(last.payload)
        /\ last.body.shape = "mapping"

\* C6: a GET, POST, PUT or PATCH on /track-query is captured exactly once, a
\* GET by the middleware without running track_query_get, the others by the
\* handler; a request to another path appends no record.
C6_CapturedExactlyOnce ==
    /\ (last.path = "/track-query" /\ last.method = "GET") =>
          /\ last.appended = 1
          /\ last.by = "middleware"
          /\ last.handler = "none"
    /\ (last.path = "/track-query" /\ last.method \in BodyMethods) =>
          /\ last.appended = 1
          /\ last.by = "handler"
    /\ (last.op # "none" /\ last.path # "/track-query") =>
          /\ last.appended = 0
          /\ last.op # "capture"

\* C8: the file changes only in a step that completes a capture or a clear,
\* and a list returns the whole current log with count equal to its length.
C8_OnlyAppendAndClearWrite ==
    /\ [][doc' # doc => last'.op \in {"capture", "clear"}]_vars
    /\ [](last.op = "list" =>
            /\ last.status = 200
            /\ last.isList
            /\ last.queries = LogOf(doc)
            /\ last.count = Len(LogOf(doc)))

\* C9: whatever the file held (absent, malformed, an array, or JSON that is
\* not an array), an append completes and a load that follows returns a log
\* whose last element is the appended record.
C9_RoundTrip ==
    (last.op = "capture" /\ last.preKind # "unreadable") =>
        /\ last.status = 200
        /\ load_queries(doc).exc = "none"
        /\ load_queries(doc).isList
        /\ Len(load_queries(doc).list) > 0
        /\ load_queries(doc).list[Len(load_queries(doc).list)].query_id
               = last.query_id

\* C10: on one event loop every acknowledged capture's record is in the
\* file, exactly once and under the acknowledged query_id, as long as fewer
\* than 100 captures were acknowledged after it and no clear has come.
C10_NoLostUpdate ==
    /\ \A k \in 1..Len(acks) :
          (Len(acks) - k < Cap) => Occurrences(LogOf(doc), acks[k]) = 1
    /\ (last.op = "capture" /\ last.status = 200) =>
          /\ Len(acks) > 0
          /\ acks[Len(acks)] = last.query_id
          /\ doc.log[Len(doc.log)].query_id = last.query_id

\* Two overlapping captures are both acknowledged: the one that drew its
\* query_id first was saved second, and the file now holds 100 records.
C10_Witness ==
    /\ Len(acks) = 2
    /\ acks[1] > acks[2]
    /\ Len(doc.log) = Cap

(***************************************************************************)
(* SpecMP: worker processes sharing the file.                              *)
(***************************************************************************)
Workers == 1..NWorkers

InitMP ==
    /\ doc \in InitDocs
    /\ nextId = 0
    /\ conn = [c \in Clients |-> IdleConn]
    /\ arrived = 0
    /\ last = NoResponse
    /\ prev = NoPrev
    /\ acks = <<>>
    /\ wrote = FALSE
    /\ worker = [w \in Workers |-> IdleWorker]
    /\ lastPair = NoPair

\* save_query, lines 43-44: queries = load_queries().  An exception of
\* load_queries, or of queries.append on a value that is no list, ends the
\* call.
MPLoad(w) ==
    /\ worker[w].pc = "idle"
    /\ nextId < MaxSaves
    /\ nextId' = nextId + 1
    /\ LET l == load_queries(doc) IN
       worker' = IF l.exc = "none" /\ l.isList
                 THEN [worker EXCEPT ![w] =
                          [pc |-> "loaded", queries |-> l.list,
                           rec |-> nextId + 1, stale |-> {}]]
                 ELSE worker
    /\ lastPair' = NoPair
    /\ UNCHANGED <<doc, conn, arrived, last, prev, acks, wrote>>

\* save_query, lines 44-51: the list loaded earlier, extended by the record,
\* replaces the file.  Every record written by another worker since this
\* worker's load is in lastPair.lost.
MPWrite(w) ==
    /\ worker[w].pc = "loaded"
    /\ doc' = WriteBack(doc, worker[w].queries,
                        QueryData(worker[w].rec, "GET", "/track-query",
                                  EmptyBody))
    /\ wrote' = TRUE
    /\ worker' = [v \in Workers |->
                    IF v = w THEN IdleWorker
                    ELSE IF worker[v].pc = "loaded"
                    THEN [worker[v] EXCEPT !.stale = @ \cup {worker[w].rec}]
                    ELSE worker[v]]
    /\ lastPair' = IF worker[w].stale # {}
                   THEN [kept |-> worker[w].rec, lost |-> worker[w].stale]
                   ELSE NoPair
    /\ UNCHANGED <<nextId, conn, arrived, last, prev, acks>>

\* clear_queries in some worker.
MPClear ==
    /\ doc' = ClearedFile(doc)
    /\ wrote' = TRUE
    /\ lastPair' = NoPair
    /\ UNCHANGED <<nextId, conn, arrived, last, prev, acks, worker>>

NextMP ==
    \/ \E w \in Workers : MPLoad(w)
    \/ \E w \in Workers : MPWrite(w)
    \/ MPClear

SpecMP == InitMP /\ [][NextMP]_vars

\* C7: when two appends have both loaded before either wrote, then right
\* after the second write the file holds the second writer's record and not
\* the first writer's: one acknowledged record is lost.
C7_LostUpdate ==
    (lastPair.kept # 0) =>
        /\ doc.kind = "array"
        /\ lastPair.kept \in Ids(doc.log)
        /\ \A a \in lastPair.lost : a \notin Ids(doc.log)

\* Two overlapped appends have completed.
C7_Witness ==
    /\ lastPair.kept # 0
    /\ lastPair.lost # {}
    /\ \A w \in Workers : worker[w].pc = "idle"

====
